---- MODULE Spec2Model ----
(***************************************************************************)
(* A model of chainladder's triangle reductions, group aggregation         *)
(* (chainladder/core/pandas.py) and of the incremental additive            *)
(* development estimator (chainladder/development/incremental.py).         *)
(*                                                                         *)
(* Numbers are fixed-point: a cell holding the real number r is the        *)
(* integer r * Scale, wrapped as <<r * Scale>>; a missing cell is NaN,     *)
(* the empty tuple.  Axes are numbered 0..3 as in the source, so axis a    *)
(* is position a + 1 of a shape or of an index tuple.                      *)
(***************************************************************************)
EXTENDS Integers, Sequences, FiniteSets, TLC

\* ----------------------------------------------------------------- bounds
\* the exhaustively enumerated triangles have at most MaxCells cells
MaxCells == 4
\* and axes of length at most MaxDim
MaxDim == 2
\* fixed-point resolution: numbers are multiples of 1/Scale
Scale == 2
\* reductions a client makes in a row
MaxCalls == 2
\* rows of a grouped triangle
MaxRows == 3
\* aggregate calls on one group-by object
MaxAggregates == 2
\* origin (and development) periods of a fitted triangle
MaxOrigins == 3

\* ------------------------------------------------------------ fixed point
NaN == <<>>

Num(v) == <<v>>

IsNaN(x) == x = NaN

NotNaN(x) == x /= NaN

One == Scale

\* the cell values the inputs are drawn from: missing, -1, 0, 1
Val == {NaN, Num(0 - One), Num(0), Num(One)}

\* and without the negative one
SmallVal == {NaN, Num(0), Num(One)}

RECURSIVE SumInts(_)
SumInts(s) == IF s = <<>> THEN 0 ELSE Head(s) + SumInts(Tail(s))

RECURSIVE ProdInts(_)
ProdInts(s) == IF s = <<>> THEN One ELSE (Head(s) * ProdInts(Tail(s))) \div Scale

RECURSIVE Insert(_, _)
Insert(x, s) ==
    IF s = <<>> THEN <<x>>
    ELSE IF x <= Head(s) THEN <<x>> \o s
    ELSE <<Head(s)>> \o Insert(x, Tail(s))

RECURSIVE Sorted(_)
Sorted(s) == IF s = <<>> THEN <<>> ELSE Insert(Head(s), Sorted(Tail(s)))

Isqrt(n) == CHOOSE k \in 0..n : k * k <= n /\ (k + 1) * (k + 1) > n

\* the non-NaN entries of a slice, unwrapped
Finite(s) ==
    LET f == SelectSeq(s, NotNaN)
    IN  [i \in 1..Len(f) |-> f[i][1]]

\* --------------------------------------------- the array module's reducers
\* a sum that does not skip NaN
sumPropagating(s) ==
    IF \E i \in 1..Len(s) : s[i] = NaN THEN NaN ELSE Num(SumInts(Finite(s)))

nansum(s) == Num(SumInts(Finite(s)))

nanprod(s) == Num(ProdInts(Finite(s)))

MeanInts(f) == SumInts(f) \div Len(f)

nanmean(s) ==
    LET f == Finite(s)
    IN  IF f = <<>> THEN NaN ELSE Num(MeanInts(f))

nanmax(s) ==
    LET f == Sorted(Finite(s))
    IN  IF f = <<>> THEN NaN ELSE Num(f[Len(f)])

nanmin(s) ==
    LET f == Sorted(Finite(s))
    IN  IF f = <<>> THEN NaN ELSE Num(f[1])

\* linear interpolation between the order statistics; q is q * Scale
QuantileInts(f, q) ==
    LET n == Len(f)
        pos == q * (n - 1)
        lo == pos \div Scale
        frac == pos % Scale
        hi == IF lo + 2 <= n THEN lo + 2 ELSE n
    IN  f[lo + 1] + (frac * (f[hi] - f[lo + 1])) \div Scale

nanquantile(s, q) ==
    LET f == Sorted(Finite(s))
    IN  IF f = <<>> THEN NaN ELSE Num(QuantileInts(f, q))

nanmedian(s) ==
    LET f == Sorted(Finite(s))
        n == Len(f)
    IN  IF f = <<>> THEN NaN
        ELSE IF n % 2 = 1 THEN Num(f[(n + 1) \div 2])
        ELSE Num((f[n \div 2] + f[n \div 2 + 1]) \div 2)

VarInts(f) ==
    LET m == MeanInts(f)
        sq == [i \in 1..Len(f) |-> ((f[i] - m) * (f[i] - m)) \div Scale]
    IN  SumInts(sq) \div Len(f)

nanvar(s) ==
    LET f == Finite(s)
    IN  IF f = <<>> THEN NaN ELSE Num(VarInts(f))

nanstd(s) ==
    LET f == Finite(s)
    IN  IF f = <<>> THEN NaN ELSE Num(Isqrt(VarInts(f) * Scale))

\* ------------------------------------------------------------ the registry
\* method name -> array-module function name
agg_funcs ==
    [k \in {"sum", "mean", "median", "max", "min", "prod", "var", "std",
            "cumsum", "quantile"} |-> "nan" \o k]
    @@ [k \in {"diff"} |-> k]

Ops == DOMAIN agg_funcs

\* the methods TriangleGroupBy gets
GroupOps == {"sum", "mean", "median", "max", "min", "prod", "var", "std",
             "cumsum", "quantile"}

\* nancumsum and diff take no keepdims keyword
AcceptsKeepdims(v) == v \notin {"nancumsum", "diff"}

\* func(slice) for the functions that accept keepdims
ApplyFunc(v, s, q) ==
    CASE v = "nansum" -> nansum(s)
      [] v = "nanmean" -> nanmean(s)
      [] v = "nanmedian" -> nanmedian(s)
      [] v = "nanmax" -> nanmax(s)
      [] v = "nanmin" -> nanmin(s)
      [] v = "nanprod" -> nanprod(s)
      [] v = "nanvar" -> nanvar(s)
      [] v = "nanstd" -> nanstd(s)
      [] v = "nanquantile" -> nanquantile(s, q)

\* ------------------------------------------------------------------ arrays
Indices(shape) ==
    (1..shape[1]) \X (1..shape[2]) \X (1..shape[3]) \X (1..shape[4])

\* the slice of array a along axis ax through index ix
Slice(a, ax, ix) ==
    [i \in 1..a.shape[ax + 1] |-> a.cells[[ix EXCEPT ![ax + 1] = i]]]

\* func(values, axis=ax, keepdims=True)
ReduceArray(a, v, ax, q) ==
    LET shape == [a.shape EXCEPT ![ax + 1] = 1]
    IN  [shape |-> shape,
         cells |-> [ix \in Indices(shape) |-> ApplyFunc(v, Slice(a, ax, ix), q)]]

\* ------------------------------------------------------------ axis lookup
IntAxis(i) == [t |-> "int", i |-> i, s |-> ""]

StrAxis(s) == [t |-> "str", i |-> 0, s |-> s]

NoAxis == [t |-> "none", i |-> 0, s |-> ""]

AxisNames == <<"index", "columns", "origin", "development">>

get_axis(axis) ==
    IF axis.t = "int" /\ axis.i \in 0..3 THEN axis.i
    ELSE IF axis.t = "int" /\ axis.i \in (0 - 4)..(0 - 1) THEN axis.i + 4
    ELSE IF axis.t = "str" /\ \E n \in 1..4 : AxisNames[n] = axis.s
         THEN (CHOOSE n \in 1..4 : AxisNames[n] = axis.s) - 1
    ELSE 0

Recognised(axis) ==
    \/ axis.t = "int" /\ axis.i \in (0 - 4)..3
    \/ axis.t = "str" /\ \E n \in 1..4 : AxisNames[n] = axis.s

\* --------------------------------------------------------------- triangles
KeyNames == <<"A", "B", "C", "D", "E">>

Shape(t) == t.values.shape

\* Invariant I1 of a triangle
I1(t) == Shape(t) = <<Len(t.kdims), Len(t.vdims), Len(t.odims), Len(t.ddims)>>

\* a triangle as its constructor leaves it: one key column, integer column,
\* origin and development labels, the valuation date of the last diagonal
MkTriangle(shape, cells) ==
    [values |-> [shape |-> shape, cells |-> cells],
     key_labels |-> <<"line">>,
     kdims |-> [i \in 1..shape[1] |-> <<KeyNames[i]>>],
     vdims |-> [j \in 1..shape[2] |-> j],
     odims |-> [o \in 1..shape[3] |-> o],
     ddims |-> [d \in 1..shape[4] |-> d],
     valuation_date |-> shape[3] + shape[4] - 1]

EmptyTri == MkTriangle(<<0, 0, 0, 0>>, <<>>)

\* zeros become NaN
num_to_nan(t) ==
    [t EXCEPT !.values.cells =
        [ix \in DOMAIN t.values.cells |->
            IF t.values.cells[ix] = Num(0) THEN NaN ELSE t.values.cells[ix]]]

\* ------------------------------------------------------------ call results
Tri(t) == [kind |-> "tri", tri |-> t, val |-> NaN, err |-> ""]

Scalar(v) == [kind |-> "scalar", tri |-> EmptyTri, val |-> v, err |-> ""]

Raise(e) == [kind |-> "error", tri |-> EmptyTri, val |-> NaN, err |-> e]

NoResult == [kind |-> "none", tri |-> EmptyTri, val |-> NaN, err |-> ""]

\* min of the axes whose length is not 1
DefaultAxis(t) ==
    LET axes == {n \in 0..3 : Shape(t)[n + 1] /= 1}
    IN  CHOOSE n \in axes : \A m \in axes : n <= m

\* a collapse that leaves the origin labels as they were
CollapseLabelsKeepOrigin(obj, self, axis) ==
    LET len == Shape(obj)[axis + 1]
        o0 == IF axis = 0 /\ len = 1
              THEN [obj EXCEPT !.kdims =
                       <<[n \in 1..Len(obj.key_labels) |-> "(All)"]>>]
              ELSE obj
        o1 == IF axis = 1 /\ len = 1 THEN [o0 EXCEPT !.vdims = <<0>>] ELSE o0
        o3 == IF axis = 3 /\ len = 1
              THEN [o1 EXCEPT !.ddims = <<self.valuation_date>>] ELSE o1
    IN  o3

\* the metadata collapse of agg_func
CollapseLabels(obj, self, axis) ==
    LET len == Shape(obj)[axis + 1]
        o0 == IF axis = 0 /\ len = 1
              THEN [obj EXCEPT !.kdims =
                       <<[n \in 1..Len(obj.key_labels) |-> "(All)"]>>]
              ELSE obj
        o1 == IF axis = 1 /\ len = 1 THEN [o0 EXCEPT !.vdims = <<0>>] ELSE o0
        o2 == IF axis = 2 /\ len = 1
              THEN [o1 EXCEPT !.odims = SubSeq(o1.odims, 1, 1)] ELSE o1
        o3 == IF axis = 3 /\ len = 1
              THEN [o2 EXCEPT !.ddims = <<self.valuation_date>>] ELSE o2
    IN  o3

\* TrianglePandas.<k>(axis, q=q) for the k of agg_funcs
agg_func(self, k, axis, q) ==
    IF axis.t = "none" /\ \A n \in 0..3 : Shape(self)[n + 1] = 1
    THEN Raise("ValueError")
    ELSE LET ax == IF axis.t = "none" THEN DefaultAxis(self) ELSE get_axis(axis)
             v == agg_funcs[k]
         IN  IF ~AcceptsKeepdims(v) THEN Raise("TypeError")
             ELSE LET reduced == [self EXCEPT !.values =
                                     ReduceArray(self.values, v, ax, q)]
                      obj == num_to_nan(CollapseLabels(reduced, self, ax))
                  IN  IF Shape(obj) = <<1, 1, 1, 1>>
                      THEN Scalar(obj.values.cells[<<1, 1, 1, 1>>])
                      ELSE Tri(obj)

\* TrianglePandas.rename(axis, value)
rename(self, axis, value) ==
    LET s0 == IF (axis.t = "str" /\ axis.s = "index") \/ (axis.t = "int" /\ axis.i = 0)
              THEN [self EXCEPT !.kdims = value] ELSE self
        s1 == IF (axis.t = "str" /\ axis.s = "columns") \/ (axis.t = "int" /\ axis.i = 1)
              THEN [s0 EXCEPT !.vdims = value] ELSE s0
        s2 == IF (axis.t = "str" /\ axis.s = "origin") \/ (axis.t = "int" /\ axis.i = 2)
              THEN [s1 EXCEPT !.odims = value] ELSE s1
        s3 == IF (axis.t = "str" /\ axis.s = "development") \/ (axis.t = "int" /\ axis.i = 3)
              THEN [s2 EXCEPT !.ddims = value] ELSE s2
    IN  s3

\* ---------------------------------------------------------- client inputs
\* every axis argument: none, -4..3, the four names, and two that name no axis
AxisArgs ==
    {NoAxis} \cup {IntAxis(i) : i \in (0 - 4)..4}
    \cup {StrAxis(AxisNames[n]) : n \in 1..4} \cup {StrAxis("rows")}

\* new labels of the right kind and length for axis n of t
NewLabels(t, n) ==
    IF n = 0 THEN [i \in 1..Shape(t)[1] |-> <<KeyNames[i + 1]>>]
    ELSE [i \in 1..Shape(t)[n + 1] |-> 10 * n + i]

\* the shapes enumerated exhaustively
SmallShapes ==
    {s \in (1..MaxDim) \X (1..MaxDim) \X (1..MaxDim) \X (1..MaxDim) :
        s[1] * s[2] * s[3] * s[4] <= MaxCells}

\* a shape with no degenerate axis
FullShape == <<2, 2, 2, 2>>

\* full-shape arrays: a base value everywhere but at two cells
SparseCells ==
    {[ix \in Indices(FullShape) |->
        IF ix = p1 THEN v1 ELSE IF ix = p2 THEN v2 ELSE b] :
        p1 \in Indices(FullShape), p2 \in Indices(FullShape),
        v1 \in Val, v2 \in Val, b \in {NaN, Num(One)}}

InitTriangles ==
    UNION {{MkTriangle(s, c) : c \in [Indices(s) -> SmallVal]} : s \in SmallShapes}

FullTriangles == {MkTriangle(FullShape, c) : c \in SparseCells}




\* -------------------------------------------------------- group aggregation
\* rows of triangle t at the positions idx (1-based), as t.iloc[idx]
iloc(t, idx) ==
    LET shape == [Shape(t) EXCEPT ![1] = Len(idx)]
    IN  [t EXCEPT
            !.values = [shape |-> shape,
                        cells |-> [ix \in Indices(shape) |->
                                      t.values.cells[[ix EXCEPT ![1] = idx[ix[1]]]]]],
            !.kdims = [n \in 1..Len(idx) |-> t.kdims[idx[n]]]]

\* positional indexers beyond the rows are an IndexError
InBounds(t, idx) == \A n \in 1..Len(idx) : idx[n] <= Shape(t)[1]

KeyRank(k) == CHOOSE n \in 1..Len(KeyNames) : KeyNames[n] = k

\* key tuples compare component by component
RECURSIVE KeyLess(_, _)
KeyLess(a, b) ==
    IF a = <<>> \/ b = <<>> THEN a = <<>> /\ b /= <<>>
    ELSE IF Head(a) = Head(b) THEN KeyLess(Tail(a), Tail(b))
    ELSE KeyRank(Head(a)) < KeyRank(Head(b))

\* the key columns named by, of every row of t
Project(t, by) ==
    [r \in 1..Len(t.kdims) |->
        [c \in 1..Len(by) |->
            t.kdims[r][CHOOSE n \in 1..Len(t.key_labels) : t.key_labels[n] = by[c]]]]

\* the set ks of keys in first-appearance order among the rows' keys
RECURSIVE FirstSeen(_)
FirstSeen(keys) ==
    IF keys = <<>> THEN <<>>
    ELSE LET rest == FirstSeen(SubSeq(keys, 1, Len(keys) - 1))
             last == keys[Len(keys)]
         IN  IF \E n \in 1..Len(rest) : rest[n] = last THEN rest ELSE Append(rest, last)

\* the set ks of keys in ascending order
RECURSIVE Ascending(_)
Ascending(ks) ==
    IF ks = {} THEN <<>>
    ELSE LET least == CHOOSE k \in ks : \A k2 \in ks \ {k} : KeyLess(k, k2)
         IN  <<least>> \o Ascending(ks \ {least})

\* the positions, ascending, of the rows whose key is k
RECURSIVE Positions(_, _)
Positions(keys, k) ==
    IF keys = <<>> THEN <<>>
    ELSE LET rest == Positions(SubSeq(keys, 1, Len(keys) - 1), k)
         IN  IF keys[Len(keys)] = k THEN Append(rest, Len(keys)) ELSE rest

\* the groups in first-appearance order
GroupByUnsorted(t, by) ==
    LET keys == Project(t, by)
        order == FirstSeen(keys)
    IN  [g \in 1..Len(order) |-> [key |-> order[g], indices |-> Positions(keys, order[g])]]

\* obj.index.groupby(by): pandas sorts the group keys (sort=True)
GroupBy(t, by) ==
    LET keys == Project(t, by)
        order == Ascending({keys[r] : r \in 1..Len(keys)})
    IN  [g \in 1..Len(order) |-> [key |-> order[g], indices |-> Positions(keys, order[g])]]

\* xp.concatenate(values, 0) of one-row arrays
Concatenate(rows) ==
    LET shape == [rows[1].shape EXCEPT ![1] = Len(rows)]
    IN  [shape |-> shape,
         cells |-> [ix \in Indices(shape) |-> rows[ix[1]].cells[[ix EXCEPT ![1] = 1]]]]

\* TriangleGroupBy.<k>(): what it raises, or "" and the new self.obj
group_agg_func(obj, by, groups, k) ==
    LET sums == [g \in 1..Len(groups) |->
                    IF InBounds(obj, groups[g].indices)
                    THEN agg_func(iloc(obj, groups[g].indices), "sum", IntAxis(0), 0)
                    ELSE Raise("IndexError")]
    IN  IF \E g \in 1..Len(groups) : sums[g].kind = "error"
        THEN [err |-> "IndexError", obj |-> obj]
        ELSE IF \E g \in 1..Len(groups) : sums[g].kind = "scalar"
        THEN [err |-> "AttributeError", obj |-> obj]
        ELSE [err |-> "",
              obj |-> [obj EXCEPT
                         !.values = Concatenate([g \in 1..Len(groups) |-> sums[g].tri.values]),
                         !.key_labels = by,
                         !.kdims = [g \in 1..Len(groups) |-> groups[g].key]]]


\* ------------------------------------------- incremental additive estimator
\* An origin x development triangle of one entity and one column is a
\* record [n, cells]: cells maps <<o, d>>, o and d in 1..n, to a value.

\* NaN-propagating arithmetic of cells
VAdd(a, b) == IF a = NaN \/ b = NaN THEN NaN ELSE Num(a[1] + b[1])

VSub(a, b) == IF a = NaN \/ b = NaN THEN NaN ELSE Num(a[1] - b[1])

VMul(a, b) == IF a = NaN \/ b = NaN THEN NaN ELSE Num((a[1] * b[1]) \div Scale)

\* 0 / 0 is NaN
VDiv(a, b) ==
    IF a = NaN \/ b = NaN \/ b = Num(0) THEN NaN ELSE Num((a[1] * Scale) \div b[1])

\* np.nan_to_num
nan_to_num(a) == IF a = NaN THEN Num(0) ELSE a

\* a zero cell becomes NaN
ZeroToNaN(a) == IF a = Num(0) THEN NaN ELSE a

RECURSIVE Pow(_, _)
Pow(b, k) == IF k = 0 THEN Num(One) ELSE VMul(b, Pow(b, k - 1))

Cells(n) == (1..n) \X (1..n)

Column(t, d) == [o \in 1..t.n |-> t.cells[<<o, d>>]]

\* 1 on and below the valuation staircase, NaN above it
nan_triangle(t) ==
    [t EXCEPT !.cells = [c \in Cells(t.n) |->
        IF c[1] + c[2] <= t.n + 1 THEN Num(One) ELSE NaN]]

\* period-over-period increase along development
cum_to_incr(t) ==
    [t EXCEPT !.cells = [c \in Cells(t.n) |->
        IF c[2] = 1 THEN t.cells[c]
        ELSE VSub(t.cells[c], t.cells[<<c[1], c[2] - 1>>])]]

RECURSIVE RunningTotal(_, _, _)
RunningTotal(t, o, d) ==
    IF d = 1 THEN t.cells[<<o, 1>>]
    ELSE VAdd(RunningTotal(t, o, d - 1), t.cells[<<o, d>>])

incr_to_cum(t) ==
    [t EXCEPT !.cells = [c \in Cells(t.n) |-> RunningTotal(t, c[1], c[2])]]

\* cumulative[d + 1] / cumulative[d]; the last column has no successor
link_ratio(t) ==
    [c \in (1..t.n) \X (1..(t.n - 1)) |->
        VDiv(t.cells[<<c[1], c[2] + 1>>], t.cells[c])]

\* cell-wise triangle arithmetic
TriDiv(a, b) == [a EXCEPT !.cells = [c \in Cells(a.n) |-> VDiv(a.cells[c], b.cells[c])]]

TriMul(a, b) == [a EXCEPT !.cells = [c \in Cells(a.n) |-> VMul(a.cells[c], b.cells[c])]]

\* each origin scaled by (1 + trend) ^ (periods to the most recent origin)
trend_origin(t, trend) ==
    [t EXCEPT !.cells = [c \in Cells(t.n) |->
        VMul(t.cells[c], Pow(Num(One + trend), t.n - c[1]))]]

\* the cells of the latest diagonal, NaN elsewhere
get_latest_diagonal(t) ==
    [t EXCEPT !.cells = [c \in Cells(t.n) |->
        IF c[1] + c[2] = t.n + 1 THEN t.cells[c] ELSE NaN]]

\* the origins of column d that hold a value, ascending
Observed(t, d) == {o \in 1..t.n : t.cells[<<o, d>>] /= NaN}

\* Development(n_periods).fit(x).w_: over columns 1..n-1, 1 at the cells that
\* hold a value, but 0 at those before the last n_periods of their column
\* when n_periods >= 1; NaN where x holds none
DevelopmentW(x, n_periods) ==
    [c \in (1..x.n) \X (1..(x.n - 1)) |->
        IF x.cells[c] = NaN THEN NaN
        ELSE IF n_periods < 1 THEN Num(One)
        ELSE IF Cardinality({o \in Observed(x, c[2]) : o > c[1]}) < n_periods
             THEN Num(One) ELSE Num(0)]

\* w_: the development weights, zeros as NaN, with one more column, the last
\* column's weights times nan_triangle
FitWeights(x, n_periods) ==
    LET n == x.n
        w0 == DevelopmentW(x, n_periods - 1)
        w1 == [c \in DOMAIN w0 |-> ZeroToNaN(w0[c])]
    IN  [c \in Cells(n) |->
            IF c[2] < n THEN w1[c]
            ELSE VMul(w1[<<c[1], n - 1>>], nan_triangle(x).cells[c])]

\* y_: the average of each development column over the origins
FitAverage(x, w, sample_weight, average) ==
    LET n == x.n
        wx == [c \in Cells(n) |-> VMul(w[c], x.cells[c])]
        wxs == [c \in Cells(n) |-> VMul(wx[c], sample_weight.cells[c])]
        ws == [c \in Cells(n) |-> VMul(w[c], sample_weight.cells[c])]
        col(f, d) == [o \in 1..n |-> f[<<o, d>>]]
    IN  [d \in 1..n |->
            IF average = "volume"
            THEN VDiv(nansum(col(wxs, d)), nansum(col(ws, d)))
            ELSE nanmean(col(wx, d))]

\* keeps: 1 above the staircase and at the latest diagonal's values, else 0
Keeps(x) ==
    LET nt == nan_triangle(x)
        diag == get_latest_diagonal(x)
    IN  [c \in Cells(x.n) |->
            VAdd(VSub(Num(One), nan_to_num(nt.cells[c])),
                 nan_to_num(VAdd(VMul(diag.cells[c], Num(0)), Num(One))))]

\* np.flip(abs(i - j), 0): |(n - 1 - i) - j| for i, j from 0
DiagonalDistance(n, c) ==
    IF n + 1 - c[1] - c[2] >= 0 THEN n + 1 - c[1] - c[2] ELSE c[1] + c[2] - n - 1

\* the squared triangle filled wherever x0 holds no value
SquaredFillMissing(x0, x, y, trend) ==
    [x EXCEPT !.cells = [c \in Cells(x.n) |->
        ZeroToNaN(
            IF x0.cells[c] = NaN
            THEN VMul(Pow(Num(One + trend), DiagonalDistance(x.n, c)), y[c[2]])
            ELSE x0.cells[c])]]

\* the squared triangle: the trended average above the staircase, the
\* incremental values of X below it, zeros as NaN
Squared(x0, x, y, trend) ==
    LET n == x.n
        nt == nan_triangle(x)
        keeps == Keeps(x)
        filled == [c \in Cells(n) |->
                    VMul(VMul(Pow(Num(One + trend), DiagonalDistance(n, c)), y[c[2]]),
                         keeps[c])]
    IN  [x EXCEPT !.cells = [c \in Cells(n) |->
            ZeroToNaN(
                VAdd(VMul(filled[c], VSub(Num(One), nan_to_num(nt.cells[c]))),
                     nan_to_num(x0.cells[c])))]]

\* IncrementalAdditive(trend, n_periods, average).fit(X, sample_weight=...)
fit(X, sample_weight, trend, n_periods, average) ==
    LET x0 == TriDiv(cum_to_incr(X), sample_weight)
        x == trend_origin(x0, trend)
        w == FitWeights(x, n_periods)
        y == FitAverage(x, w, sample_weight, average)
        obj == Squared(x0, x, y, trend)
    IN  [incremental_ |-> TriMul(obj, sample_weight),
         ldf_ |-> link_ratio(incr_to_cum(obj))]

\* ------------------------------------------------------------------- state
VARIABLES
    self,       \* the triangle the client holds and calls methods on
    pre,        \* self as it was when the last call was made
    call,       \* the last call: method, op, axis argument, q
    out,        \* what the last call returned or raised
    orig,       \* the triangle a scalar collapse or a grouping started from
    calls,      \* reductions made so far
    heap,       \* the triangle objects of a grouping, by reference
    gb,         \* the TriangleGroupBy object: obj (a reference), by, groups
    rets,       \* what each aggregate call returned, as it was on return
    fitIn,      \* the arguments of fit: X and sample_weight
    est         \* the estimator: its parameters and, once fitted, its attributes

varsR == <<self, pre, call, out, orig, calls>>

varsG == <<heap, gb, rets>>

varsF == <<fitIn, est>>

vars == <<varsR, varsG, varsF>>

NoCall == [m |-> "none", k |-> "", axis |-> NoAxis, q |-> 0]

NoGroupBy == [obj |-> 0, by |-> <<>>, groups |-> <<>>]

\* no grouping is going on
IdleG ==
    /\ heap = <<>>
    /\ gb = NoGroupBy
    /\ rets = <<>>

NoTriangle == [n |-> 0, cells |-> <<>>]

NoFit == [incremental_ |-> NoTriangle, ldf_ |-> <<>>]

\* no estimator is around
IdleF ==
    /\ fitIn = [X |-> NoTriangle, sample_weight |-> NoTriangle]
    /\ est = [trend |-> 0, n_periods |-> 0 - 1, average |-> "volume",
              fitted |-> FALSE, attrs |-> NoFit]

\* the client calls self.<k>(axis); self is left alone (agg_func works on a copy)
Reduce(k, axis, q) ==
    /\ out.kind = "none"
    /\ out' = agg_func(self, k, axis, q)
    /\ pre' = self
    /\ call' = [m |-> "reduce", k |-> k, axis |-> axis, q |-> q]
    /\ calls' = calls + 1
    /\ UNCHANGED <<self, orig, varsG, varsF>>

\* the client goes on with the triangle a reduction returned
Continue ==
    /\ out.kind = "tri"
    /\ call.m = "reduce"
    /\ self' = out.tri
    /\ pre' = out.tri
    /\ call' = NoCall
    /\ out' = NoResult
    /\ UNCHANGED <<orig, calls, varsG, varsF>>

\* the client relabels an axis of its triangle in place; rename returns self
Rename(axis) ==
    /\ out.kind = "none"
    /\ LET r == rename(self, axis, NewLabels(self, get_axis(axis)))
       IN  /\ self' = r
           /\ out' = Tri(r)
    /\ pre' = self
    /\ call' = [m |-> "rename", k |-> "", axis |-> axis, q |-> 0]
    /\ UNCHANGED <<orig, calls, varsG, varsF>>

\* any reduction, along any axis
AnyReduce ==
    /\ calls < MaxCalls
    /\ \/ \E k \in Ops \ {"quantile"}, axis \in AxisArgs : Reduce(k, axis, 0)
       \/ \E axis \in AxisArgs, q \in 0..Scale : Reduce("quantile", axis, q)

AnyRename == \E axis \in AxisArgs : Rename(axis)

InitR ==
    /\ self \in InitTriangles
    /\ pre = self
    /\ orig = EmptyTri
    /\ call = NoCall
    /\ out = NoResult
    /\ calls = 0
    /\ IdleG
    /\ IdleF

NextR == AnyReduce \/ AnyRename \/ Continue

Spec == InitR /\ [][NextR]_vars

\* the scalar collapse: sum over axis 0, then 1, then 2, then 3, the axis
\* given by number or left out
CollapseStep ==
    \E axis \in {NoAxis, IntAxis(calls)} : Reduce("sum", axis, 0)

InitC ==
    /\ self \in FullTriangles
    /\ pre = self
    /\ orig = self
    /\ call = NoCall
    /\ out = NoResult
    /\ calls = 0
    /\ IdleG
    /\ IdleF

NextC == CollapseStep \/ Continue

SpecCollapse == InitC /\ [][NextC]_vars


\* ------------------------------------------------- the client of a grouping
\* the triangles grouped: rows keyed by line and state, one column, one
\* origin, one or two development periods, each cell missing or 1
GroupTriangles ==
    UNION {{[MkTriangle(<<Len(lines), 1, 1, d>>, c) EXCEPT
                !.key_labels = <<"line", "state">>,
                !.kdims = [r \in 1..Len(lines) |-> <<lines[r], KeyNames[r]>>]] :
              c \in [Indices(<<Len(lines), 1, 1, d>>) -> {NaN, Num(One)}]} :
           lines \in UNION {[1..n -> {"A", "B"}] : n \in 1..MaxRows}, d \in 1..2}

InitG ==
    /\ self \in GroupTriangles
    /\ pre = self
    /\ orig = self
    /\ call = NoCall
    /\ out = NoResult
    /\ calls = 0
    /\ heap = <<self>>
    /\ gb = NoGroupBy
    /\ rets = <<>>
    /\ IdleF

\* self.groupby(by): TriangleGroupBy(self, by) copies the triangle
TriangleGroupBy(by) ==
    /\ gb = NoGroupBy
    /\ heap' = Append(heap, heap[1])
    /\ gb' = [obj |-> Len(heap) + 1, by |-> by, groups |-> GroupBy(heap[1], by)]
    /\ call' = [m |-> "groupby", k |-> "", axis |-> NoAxis, q |-> 0]
    /\ UNCHANGED <<self, pre, out, orig, calls, rets, varsF>>

\* gb.<k>(): aggregates into gb.obj and returns it
Aggregate(k) ==
    /\ gb /= NoGroupBy
    /\ Len(rets) < MaxAggregates
    /\ rets /= <<>> => k = call.k
    /\ LET r == group_agg_func(heap[gb.obj], gb.by, gb.groups, k)
       IN  /\ heap' = [heap EXCEPT ![gb.obj] = r.obj]
           /\ rets' = Append(rets, IF r.err = "" THEN Tri(r.obj) ELSE Raise(r.err))
    /\ call' = [m |-> "aggregate", k |-> k, axis |-> NoAxis, q |-> 0]
    /\ UNCHANGED <<self, pre, out, orig, calls, gb, varsF>>

NextG ==
    \/ \E by \in {<<"line">>, <<"state">>, <<"line", "state">>} : TriangleGroupBy(by)
    \/ \E k \in GroupOps : Aggregate(k)

SpecGroup == InitG /\ [][NextG]_vars


\* ------------------------------------------------ the client of the estimator
\* the cumulative triangle of Scenario A
ScenarioA ==
    [n |-> 3,
     cells |-> [c \in Cells(3) |->
        CASE c = <<1, 1>> -> Num(10 * One)
          [] c = <<1, 2>> -> Num(18 * One)
          [] c = <<1, 3>> -> Num(20 * One)
          [] c = <<2, 1>> -> Num(12 * One)
          [] c = <<3, 1>> -> Num(14 * One)
          [] OTHER -> NaN]]

OnStaircase(n, c) == c[1] + c[2] <= n + 1

\* cumulative triangles of n origins: d at development d on the staircase,
\* but for two cells that may be missing or hold one more; NaN above it
Altered(n, c1, v1, c2, v2) ==
    [n |-> n,
     cells |-> [c \in Cells(n) |->
        IF ~OnStaircase(n, c) THEN NaN
        ELSE IF c = c1 THEN v1 ELSE IF c = c2 THEN v2
        ELSE Num(c[2] * One)]]

Alternatives(c) == {NaN, Num(c[2] * One), Num((c[2] + 1) * One)}

StaircaseTriangles(n) ==
    LET on == {c \in Cells(n) : OnStaircase(n, c)}
    IN  UNION {{Altered(n, p[1], v1, p[2], v2) :
                  v1 \in Alternatives(p[1]), v2 \in Alternatives(p[2])} :
               p \in on \X on}

Uniform(n, v) == [n |-> n, cells |-> [c \in Cells(n) |-> Num(v)]]

InitF ==
    /\ self = EmptyTri
    /\ pre = EmptyTri
    /\ orig = EmptyTri
    /\ call = NoCall
    /\ out = NoResult
    /\ calls = 0
    /\ IdleG
    /\ \E X \in {ScenarioA} \cup UNION {StaircaseTriangles(n) : n \in 2..MaxOrigins},
          sw \in {One, 2 * One} :
          fitIn = [X |-> X, sample_weight |-> Uniform(X.n, sw)]
    /\ \E trend \in {0, One}, n_periods \in {0 - 1, 1, 2}, average \in {"volume", "simple"} :
          est = [trend |-> trend, n_periods |-> n_periods, average |-> average,
                 fitted |-> FALSE, attrs |-> NoFit]

\* est.fit(X, sample_weight=sample_weight)
Fit ==
    /\ ~est.fitted
    /\ fitIn.X /= NoTriangle
    /\ est' = [est EXCEPT
                 !.fitted = TRUE,
                 !.attrs = fit(fitIn.X, fitIn.sample_weight, est.trend, est.n_periods,
                               est.average)]
    /\ UNCHANGED <<varsR, varsG, fitIn>>

SpecFit == InitF /\ [][Fit]_vars

\* ------------------------------------------------------ claims, reductions
\* the axis a reduction of t called with this argument works along
ResolvedAxis(t, axis) == IF axis = NoAxis THEN DefaultAxis(t) ELSE get_axis(axis)

CollapsingOps == {"sum", "mean", "median", "max", "min", "prod", "var", "std", "quantile"}

\* the cell of a result at ix, the result a triangle or a scalar
ResultCell(r, ix) == IF r.kind = "scalar" THEN r.val ELSE r.tri.values.cells[ix]

RECURSIVE TotalOver(_, _)
TotalOver(S, cells) ==
    IF S = {} THEN 0
    ELSE LET ix == CHOOSE x \in S : TRUE
         IN  (IF cells[ix] = NaN THEN 0 ELSE cells[ix][1]) + TotalOver(S \ {ix}, cells)

\* the sum of the finite cells of t
Total(t) == TotalOver(DOMAIN t.values.cells, t.values.cells)

HasFinite(t) == \E ix \in DOMAIN t.values.cells : t.values.cells[ix] /= NaN

\* C1: sum over a (1,1,1,1) triangle holding a finite v, the axis omitted or
\* given as 0, 1, 2 or 3, completes and returns the scalar v.
C1_ScalarUnchanged ==
    (/\ call.m = "reduce"
     /\ call.k = "sum"
     /\ Shape(pre) = <<1, 1, 1, 1>>
     /\ pre.values.cells[<<1, 1, 1, 1>>] /= NaN
     /\ (call.axis = NoAxis \/ call.axis \in {IntAxis(i) : i \in 0..3}))
    => (out.kind = "scalar" /\ out.val = pre.values.cells[<<1, 1, 1, 1>>])

\* C2: a reduction called with an axis argument that names no axis raises
\* InvalidAxis and returns nothing.
C2_InvalidAxisRaises ==
    (call.m = "reduce" /\ call.axis /= NoAxis /\ ~Recognised(call.axis))
    => (out.kind = "error" /\ out.err = "InvalidAxis")

\* C3: for every axis i the integer i, its name and the negative index i - 4
\* address the same axis, in every reduction and in rename.
C3_AxisSynonyms ==
    \A i \in 0..3 :
        /\ \A k \in Ops, q \in 0..Scale :
              /\ agg_func(self, k, IntAxis(i), q) = agg_func(self, k, StrAxis(AxisNames[i + 1]), q)
              /\ agg_func(self, k, IntAxis(i), q) = agg_func(self, k, IntAxis(i - 4), q)
        /\ rename(self, IntAxis(i), NewLabels(self, i))
              = rename(self, StrAxis(AxisNames[i + 1]), NewLabels(self, i))
        /\ rename(self, IntAxis(i), NewLabels(self, i))
              = rename(self, IntAxis(i - 4), NewLabels(self, i))

\* C4: every triangle a reduction returns, after any sequence of reductions,
\* satisfies I1: its values' axis lengths are the lengths of its own labels.
C4_ShapeInvariant ==
    (call.m = "reduce" /\ out.kind = "tri") => I1(out.tri)

\* a second reduction in a row that shortened an axis and returned a triangle
C4_Witness ==
    /\ call.m = "reduce"
    /\ out.kind = "tri"
    /\ calls = 2
    /\ Shape(out.tri) /= Shape(pre)

\* C5: a collapsing reduction leaves NaN in every output cell whose input
\* slice along the reduced axis is entirely NaN.
C5_NaNPreserved ==
    (call.m = "reduce" /\ call.k \in CollapsingOps /\ out.kind \in {"tri", "scalar"})
    => LET ax == ResolvedAxis(pre, call.axis)
       IN  \A ix \in Indices([Shape(pre) EXCEPT ![ax + 1] = 1]) :
              (\A i \in 1..Shape(pre)[ax + 1] : Slice(pre.values, ax, ix)[i] = NaN)
              => ResultCell(out, ix) = NaN

\* C6 as stated: four sums in a row, collapsing axes 0, 1, 2, 3, end with a
\* scalar equal to the sum of the finite cells of the original triangle.
C6_ScalarIsSum ==
    (call.m = "reduce" /\ calls = 4 /\ HasFinite(orig))
    => (out.kind = "scalar" /\ out.val = Num(Total(orig)))

\* C6 as amended: the first three sums return triangles and the fourth a
\* scalar, which is the sum of the finite cells of the original triangle
\* when that sum is not zero, and NaN when it is zero.
C6_ScalarIsSumOrNaN ==
    /\ (call.m = "reduce" /\ calls < 4) => out.kind = "tri"
    /\ (call.m = "reduce" /\ calls = 4 /\ HasFinite(orig))
       => /\ out.kind = "scalar"
          /\ out.val = IF Total(orig) = 0 THEN NaN ELSE Num(Total(orig))

\* a collapse of a triangle with missing cells, the last axis left out, that
\* ended in a number
C6_Witness ==
    /\ call.m = "reduce"
    /\ calls = 4
    /\ call.axis = NoAxis
    /\ out.kind = "scalar"
    /\ out.val /= NaN
    /\ \E ix \in DOMAIN orig.values.cells : orig.values.cells[ix] = NaN

\* ------------------------------------------------ claims, group aggregation
\* the axis-0 reduction with op k of the rows of t at idx, as a one-row array
ReducedRows(t, idx, k) ==
    LET r == agg_func(iloc(t, idx), k, IntAxis(0), 0)
    IN  IF r.kind = "tri" THEN r.tri.values
        ELSE [shape |-> <<1, 1, 1, 1>>, cells |-> [ix \in {<<1, 1, 1, 1>>} |-> r.val]]

\* row g of triangle t, as a one-row array
RowOf(t, g) == iloc(t, <<g>>).values

\* C7: group_by(keys).aggregate(sum) returns a triangle with one row per
\* distinct key tuple, in the order the key tuples first appear among the
\* input rows, labelled by the grouping key names, row i the sum of exactly
\* the input rows that carry the i-th key tuple.
C7_FirstSeenOrder ==
    (Len(rets) >= 1 /\ call.k = "sum")
    => LET want == GroupByUnsorted(orig, gb.by)
           got == rets[1]
       IN  /\ got.kind = "tri"
           /\ got.tri.key_labels = gb.by
           /\ got.tri.kdims = [g \in 1..Len(want) |-> want[g].key]
           /\ Shape(got.tri)[1] = Len(want)
           /\ \A g \in 1..Len(want) :
                 RowOf(got.tri, g) = ReducedRows(orig, want[g].indices, "sum")

\* C8: for every collapsing op, each group's row of the aggregate is the
\* axis-0 reduction with that op of the group's rows.
C8_GroupUsesOp ==
    (Len(rets) >= 1 /\ call.k \in CollapsingOps /\ rets[1].kind = "tri")
    => \A g \in 1..Len(gb.groups) :
          RowOf(rets[1].tri, g) = ReducedRows(orig, gb.groups[g].indices, call.k)

\* C10: grouping and aggregating leave the original triangle as it was, and
\* a second aggregate call on the same group-by object succeeds and returns
\* what the first returned.
C10_NoSharedMutation ==
    /\ heap[1] = orig
    /\ (Len(rets) >= 2 /\ rets[1].kind = "tri")
       => /\ rets[2].kind = "tri"
          /\ rets[2].tri.values = rets[1].tri.values
          /\ rets[2].tri.kdims = rets[1].tri.kdims
          /\ rets[2].tri.key_labels = rets[1].tri.key_labels

\* ------------------------------------------------ claims, incremental additive
\* the fit of the claim: trend 0, volume average, sample_weight 1, every origin
ClaimedFit ==
    /\ est.fitted
    /\ est.trend = 0
    /\ est.average = "volume"
    /\ est.n_periods = 0 - 1
    /\ fitIn.sample_weight = Uniform(fitIn.X.n, One)

Incr == cum_to_incr(fitIn.X)

\* the average of the incremental values that column d of X holds
ColumnAverage(d) ==
    LET obs == {o \in 1..fitIn.X.n : Incr.cells[<<o, d>>] /= NaN}
    IN  IF obs = {} THEN NaN
        ELSE VDiv(nansum(Column(Incr, d)), Num(Cardinality(obs) * One))

\* the first origin holds no incremental value at the column before the last
LastColumnUnweighted(c) ==
    /\ c[2] = fitIn.X.n
    /\ Incr.cells[<<1, fitIn.X.n - 1>>] = NaN

\* C9 as stated: in the completed incremental triangle every cell that holds
\* an incremental value in X keeps it and every other cell of development
\* column d equals the volume-weighted average of the incremental values of
\* column d; for Scenario A the origin-1 development-1 cell is 8.
C9_FillsEveryMissingCell ==
    ClaimedFit =>
        /\ \A c \in Cells(fitIn.X.n) :
              est.attrs.incremental_.cells[c] =
                 IF Incr.cells[c] /= NaN THEN Incr.cells[c] ELSE ColumnAverage(c[2])
        /\ fitIn.X = ScenarioA => est.attrs.incremental_.cells[<<2, 2>>] = Num(8 * One)

\* C9 amended: a cell on or below the valuation staircase is never filled, it
\* keeps the incremental value of X when that is present and not zero and is
\* NaN otherwise; a cell above the staircase in development column d equals
\* the volume-weighted average of the incremental values of column d, NaN
\* when that average is zero or the column holds none; the last column is all
\* NaN when the first origin holds no incremental value at the column before
\* it; for Scenario A the origin-1 development-1 cell stays NaN and the
\* origin-2 development-1 cell is 8.
C9_FillsAboveStaircase ==
    ClaimedFit =>
        /\ \A c \in Cells(fitIn.X.n) :
              est.attrs.incremental_.cells[c] =
                 IF LastColumnUnweighted(c) THEN NaN
                 ELSE IF OnStaircase(fitIn.X.n, c) THEN ZeroToNaN(Incr.cells[c])
                 ELSE ZeroToNaN(ColumnAverage(c[2]))
        /\ fitIn.X = ScenarioA =>
              /\ est.attrs.incremental_.cells[<<2, 2>>] = NaN
              /\ est.attrs.incremental_.cells[<<3, 2>>] = Num(8 * One)

\* C9 witness: Scenario A fitted as the claim says, a missing cell on the
\* staircase left NaN and cells above it filled
C9_Witness ==
    /\ ClaimedFit
    /\ fitIn.X = ScenarioA
    /\ est.attrs.incremental_.cells[<<2, 2>>] = NaN
    /\ est.attrs.incremental_.cells[<<3, 2>>] = Num(8 * One)
    /\ est.attrs.incremental_.cells[<<2, 3>>] = Num(2 * One)

====
